---- MODULE Spec2Model ----
\* A model of sparse.py: the SparseMatrix class (nested insertion-ordered
\* dictionaries row -> col -> value), its three arithmetic methods and its
\* text codec (load_matrix / parse_entry / save_to_file).
EXTENDS Integers, Sequences, FiniteSets, TLC

VARIABLES heap, file, last, nsets

vars == <<heap, file, last, nsets>>

\* ---------------------------------------------------------------- bounds
MaxDim == 2
MaxVal == 1
MaxSets == 2
MaxLines == 2
MaxNum == 10

\* the driver holds two operand matrices (matrix1, matrix2) and one result
NumOperands == 2

Dims == 1..MaxDim
Keys == 0..(MaxDim - 1)
Vals == 0..MaxVal

\* ------------------------------------------------- Python dict primitives
\* A dict is the sequence of its <<key, value>> items in insertion order.
HasKey(d, k) == \E i \in 1..Len(d) : d[i][1] = k

DictGet(d, k, default) ==
    IF HasKey(d, k) THEN d[CHOOSE i \in 1..Len(d) : d[i][1] = k][2] ELSE default

DictSet(d, k, v) ==
    IF HasKey(d, k)
    THEN [i \in 1..Len(d) |-> IF d[i][1] = k THEN <<k, v>> ELSE d[i]]
    ELSE Append(d, <<k, v>>)

DictKeys(d) == [i \in 1..Len(d) |-> d[i][1]]

\* ------------------------------------------------------ the matrix engine
\* __init__(numRows, numCols): a new object with an empty dict; its
\* reference is the new length of the heap.
SparseMatrix(h, numRows, numCols) ==
    Append(h, [numRows |-> numRows, numCols |-> numCols, matrix |-> <<>>])

get_element(h, self, row, col) ==
    DictGet(DictGet(h[self].matrix, row, <<>>), col, 0)

\* set_element that leaves the matrix alone when the value is 0
set_element_skip_zero(h, self, row, col, value) ==
    IF value = 0 THEN h
    ELSE [h EXCEPT ![self].matrix =
            DictSet(IF ~HasKey(@, row) THEN DictSet(@, row, <<>>) ELSE @, row,
                    DictSet(DictGet(@, row, <<>>), col, value))]

set_element(h, self, row, col, value) ==
    LET m0 == h[self].matrix
        m1 == IF ~HasKey(m0, row) THEN DictSet(m0, row, <<>>) ELSE m0
        m2 == DictSet(m1, row, DictSet(DictGet(m1, row, <<>>), col, value))
    IN  [h EXCEPT ![self].matrix = m2]

RECURSIVE add_loop(_, _, _, _, _, _)
add_loop(h, result, self, other, row, col) ==
    IF row >= h[self].numRows THEN h
    ELSE IF col >= h[self].numCols THEN add_loop(h, result, self, other, row + 1, 0)
    ELSE add_loop(set_element(h, result, row, col,
                      get_element(h, self, row, col) + get_element(h, other, row, col)),
                  result, self, other, row, col + 1)

\* add that accumulates into self instead of a new matrix
add_inplace(h, self, other) ==
    [heap |-> add_loop(h, self, self, other, 0, 0), result |-> self]

\* add that reads self where it should read other
add_self_twice(h, self, other) ==
    [heap |-> add_loop(SparseMatrix(h, h[self].numRows, h[self].numCols),
                       Len(h) + 1, self, self, 0, 0),
     result |-> Len(h) + 1]

add(h, self, other) ==
    LET h0 == SparseMatrix(h, h[self].numRows, h[self].numCols)
        result == Len(h0)
    IN  [heap |-> add_loop(h0, result, self, other, 0, 0), result |-> result]

RECURSIVE subtract_loop(_, _, _, _, _, _)
subtract_loop(h, result, self, other, row, col) ==
    IF row >= h[self].numRows THEN h
    ELSE IF col >= h[self].numCols THEN subtract_loop(h, result, self, other, row + 1, 0)
    ELSE subtract_loop(set_element(h, result, row, col,
                      get_element(h, self, row, col) - get_element(h, other, row, col)),
                  result, self, other, row, col + 1)

subtract(h, self, other) ==
    LET h0 == SparseMatrix(h, h[self].numRows, h[self].numCols)
        result == Len(h0)
    IN  [heap |-> subtract_loop(h0, result, self, other, 0, 0), result |-> result]

\* sum(self.get_element(row, k) * other.get_element(k, col) for k in range(numCols))
RECURSIVE dot(_, _, _, _, _, _)
dot(h, self, other, row, col, k) ==
    IF k >= h[self].numCols THEN 0
    ELSE get_element(h, self, row, k) * get_element(h, other, k, col)
         + dot(h, self, other, row, col, k + 1)

\* for row in self.matrix: for col in other_matrix.matrix: (i, j index the keys)
RECURSIVE multiply_loop(_, _, _, _, _, _)
multiply_loop(h, result, self, other, i, j) ==
    LET rows == DictKeys(h[self].matrix)
        cols == DictKeys(h[other].matrix)
    IN  IF i > Len(rows) THEN h
        ELSE IF j > Len(cols) THEN multiply_loop(h, result, self, other, i + 1, 1)
        ELSE IF HasKey(DictGet(h[self].matrix, rows[i], <<>>), cols[j])
             THEN multiply_loop(set_element(h, result, rows[i], cols[j],
                                    dot(h, self, other, rows[i], cols[j], 0)),
                                result, self, other, i, j + 1)
             ELSE multiply_loop(h, result, self, other, i, j + 1)

\* the dimension check on the wrong pair of dimensions
multiply_raises_rows(h, self, other) == h[self].numRows # h[other].numRows

multiply_raises(h, self, other) == h[self].numCols # h[other].numRows

multiply(h, self, other) ==
    LET h0 == SparseMatrix(h, h[self].numRows, h[other].numCols)
        result == Len(h0)
    IN  [heap |-> multiply_loop(h0, result, self, other, 1, 1), result |-> result]

\* --------------------------------------------------- Python str primitives
\* A str is the sequence of its characters.  The modelled alphabet has no
\* "\r" and no "_".
Digits == <<"0", "1", "2", "3", "4", "5", "6", "7", "8", "9">>
Whitespace == {" ", "\t", "\n"}

IsDigit(ch) == \E i \in 1..10 : Digits[i] = ch
DigitVal(ch) == (CHOOSE i \in 1..10 : Digits[i] = ch) - 1

\* str(n) of an int, as the f-strings of save_to_file format it
RECURSIVE NatToStr(_)
NatToStr(n) ==
    IF n < 10 THEN <<Digits[n + 1]>>
    ELSE NatToStr(n \div 10) \o <<Digits[(n % 10) + 1]>>

\* str that drops the sign
str_unsigned(n) == IF n < 0 THEN NatToStr(-n) ELSE NatToStr(n)

str(n) == IF n < 0 THEN <<"-">> \o NatToStr(-n) ELSE NatToStr(n)

\* s.strip()
RECURSIVE lstrip(_)
lstrip(s) == IF s # <<>> /\ Head(s) \in Whitespace THEN lstrip(Tail(s)) ELSE s

RECURSIVE rstrip(_)
rstrip(s) ==
    IF s # <<>> /\ s[Len(s)] \in Whitespace THEN rstrip(SubSeq(s, 1, Len(s) - 1)) ELSE s

strip(s) == rstrip(lstrip(s))

\* s.split(sep) for a one-character separator
RECURSIVE split(_, _)
split(s, sep) ==
    IF \E i \in 1..Len(s) : s[i] = sep
    THEN LET i == CHOOSE i \in 1..Len(s) : s[i] = sep /\ \A j \in 1..(i - 1) : s[j] # sep
         IN  <<SubSeq(s, 1, i - 1)>> \o split(SubSeq(s, i + 1, Len(s)), sep)
    ELSE <<s>>

RECURSIVE DigitsToNat(_, _)
DigitsToNat(s, acc) ==
    IF s = <<>> THEN acc ELSE DigitsToNat(Tail(s), 10 * acc + DigitVal(Head(s)))

\* int(s): surrounding whitespace, an optional sign, then decimal digits;
\* anything else raises ValueError (ok = FALSE)
IntResult(ok, value) == [ok |-> ok, value |-> value]

int_digits(d, negative) ==
    IF d # <<>> /\ \A i \in 1..Len(d) : IsDigit(d[i])
    THEN IntResult(TRUE, IF negative THEN -DigitsToNat(d, 0) ELSE DigitsToNat(d, 0))
    ELSE IntResult(FALSE, 0)

int_stripped(t) ==
    IF t # <<>> /\ Head(t) \in {"+", "-"}
    THEN int_digits(Tail(t), Head(t) = "-")
    ELSE int_digits(t, FALSE)

int(s) == int_stripped(strip(s))

\* the lines of a text file, each with its line ending, as readline and
\* iteration over the file yield them
RECURSIVE Lines(_)
Lines(text) ==
    IF text = <<>> THEN <<>>
    ELSE IF \E i \in 1..Len(text) : text[i] = "\n"
         THEN LET i == CHOOSE i \in 1..Len(text) :
                         text[i] = "\n" /\ \A j \in 1..(i - 1) : text[j] # "\n"
              IN  <<SubSeq(text, 1, i)>> \o Lines(SubSeq(text, i + 1, Len(text)))
         ELSE <<text>>

\* ---------------------------------------------------------------- the codec
\* entry = line.strip()[1:-1].split(','); int(entry[0]), int(entry[1]), int(entry[2])
entry_int(entry, n) == IF Len(entry) >= n THEN int(entry[n]) ELSE IntResult(FALSE, 0)

entry_result(row, col, value) ==
    [ok |-> row.ok /\ col.ok /\ value.ok,
     row |-> row.value, col |-> col.value, value |-> value.value]

entry_tokens(entry) ==
    entry_result(entry_int(entry, 1), entry_int(entry, 2), entry_int(entry, 3))

slice_1_m1(t) == SubSeq(t, 2, Len(t) - 1)

parse_entry(line) == entry_tokens(split(slice_1_m1(strip(line)), ","))

\* int(file.readline().split('=')[1])
header_parts(parts) == IF Len(parts) >= 2 THEN int(parts[2]) ELSE IntResult(FALSE, 0)

header_count(ls, n) == header_parts(split(IF Len(ls) >= n THEN ls[n] ELSE <<>>, "="))

\* if row not in matrix: matrix[row] = {}; matrix[row][col] = value
with_row(matrix, row) == IF ~HasKey(matrix, row) THEN DictSet(matrix, row, <<>>) ELSE matrix

store(matrix, row, col, value) ==
    DictSet(matrix, row, DictSet(DictGet(matrix, row, <<>>), col, value))

insert_entry(matrix, e) == store(with_row(matrix, e.row), e.row, e.col, e.value)

\* for line in file: if line.strip(): row, col, value = self.parse_entry(line) ...
RECURSIVE load_entries(_, _, _)
load_entry(ls, n, matrix, e) ==
    IF e.ok THEN load_entries(ls, n + 1, insert_entry(matrix, e))
    ELSE [ok |-> FALSE, matrix |-> <<>>]

load_entries(ls, n, matrix) ==
    IF n > Len(ls) THEN [ok |-> TRUE, matrix |-> matrix]
    ELSE IF strip(ls[n]) = <<>> THEN load_entries(ls, n + 1, matrix)
    ELSE load_entry(ls, n, matrix, parse_entry(ls[n]))

\* load_matrix: ok = FALSE stands for the ValueError it raises
load_result(rows, cols, body) ==
    IF rows.ok /\ cols.ok /\ body.ok
    THEN [ok |-> TRUE, numRows |-> rows.value, numCols |-> cols.value,
          matrix |-> body.matrix]
    ELSE [ok |-> FALSE, numRows |-> 0, numCols |-> 0, matrix |-> <<>>]

load_lines(ls) ==
    load_result(header_count(ls, 1), header_count(ls, 2), load_entries(ls, 3, <<>>))

load_matrix(text) == load_lines(Lines(text))

\* __init__(matrix_file): the new object, or no object when load_matrix raises
loaded_object(h, r) ==
    IF r.ok
    THEN Append(h, [numRows |-> r.numRows, numCols |-> r.numCols, matrix |-> r.matrix])
    ELSE h

SparseMatrixFromFile(h, text) == loaded_object(h, load_matrix(text))

RECURSIVE save_cols(_, _, _)
save_cols(row, items, j) ==
    IF j > Len(items) THEN <<>>
    ELSE <<"(">> \o str(row) \o <<",", " ">> \o str(items[j][1]) \o <<",", " ">>
         \o str(items[j][2]) \o <<")", "\n">> \o save_cols(row, items, j + 1)

RECURSIVE save_rows(_, _)
save_rows(matrix, i) ==
    IF i > Len(matrix) THEN <<>>
    ELSE save_cols(matrix[i][1], matrix[i][2], 1) \o save_rows(matrix, i + 1)

save_to_file(h, self) ==
    <<"r", "o", "w", "s", "=">> \o str(h[self].numRows) \o <<"\n">>
    \o <<"c", "o", "l", "s", "=">> \o str(h[self].numCols) \o <<"\n">>
    \o save_rows(h[self].matrix, 1)

\* ------------------------------------------------------ the input files
CodecVals == {-MaxNum, 0, MaxNum}

\* candidate first lines
HeaderRows ==
    {<<"r", "o", "w", "s", "=", "2">>,
     <<"r", "o", "w", "s", "=", "1">>,
     <<"r", "o", "w", "s">>,
     <<"r", "o", "w", "s", "=", "x">>,
     <<"r", "=", "1">>}

\* candidate second lines
HeaderCols ==
    {<<"c", "o", "l", "s", "=", "2">>,
     <<"c", "o", "l", "s", "=", "1">>,
     <<"c", "o", "l", "s">>,
     <<"x", "=", "2">>,
     <<"c", "o", "l", "s", "=", "2", "=", "9">>,
     <<"c", "o", "l", "s", "=", "y">>}

\* candidate entry lines
EntryLines ==
    {<<"(", "0", ",", " ", "0", ",", " ", "5", ")">>,
     <<"(", "0", ",", " ", "0", ",", " ", "7", ")">>,
     <<"(", "1", ",", " ", "1", ",", " ", "-", "7", ")">>,
     <<" ", "(", "1", ",", " ", "0", ",", " ", "4", ")", " ">>,
     <<"(", "0", ",", " ", "1", ",", " ", "5", ",", " ", "9", ")">>,
     <<"[", "0", ",", " ", "1", ",", " ", "3", "]">>,
     <<"(", "0", ",", " ", "1", ")">>,
     <<"(", "a", ",", " ", "0", ",", " ", "1", ")">>,
     <<"0", ",", " ", "0", ",", " ", "5">>,
     <<" ", " ">>}

RECURSIVE JoinLines(_)
JoinLines(ls) == IF ls = <<>> THEN <<>> ELSE Head(ls) \o <<"\n">> \o JoinLines(Tail(ls))

Bodies == UNION {[1..n -> EntryLines] : n \in 0..MaxLines}

InputTexts ==
    {JoinLines(<<h1, h2>> \o b) : h1 \in HeaderRows, h2 \in HeaderCols, b \in Bodies}
    \cup {JoinLines(<<h1>>) : h1 \in HeaderRows} \cup {<<>>}

\* ------------------------------------------------------------ the actions
Call(op, self, other, ok, ret) ==
    [op |-> op, self |-> self, other |-> other, ok |-> ok, ret |-> ret]

Refs == DOMAIN heap
Operands == 1..NumOperands

SetElement(self, row, col, value) ==
    /\ nsets < MaxSets
    /\ heap' = set_element(heap, self, row, col, value)
    /\ nsets' = nsets + 1
    /\ last' = Call("set_element", self, 0, TRUE, 0)
    /\ UNCHANGED file

GetElement(self, row, col) ==
    /\ last' = Call("get_element", self, 0, TRUE, get_element(heap, self, row, col))
    /\ UNCHANGED <<heap, file, nsets>>

Add(self, other) ==
    /\ Len(heap) = NumOperands
    /\ LET r == add(heap, self, other)
       IN  heap' = r.heap /\ last' = Call("add", self, other, TRUE, r.result)
    /\ UNCHANGED <<file, nsets>>

Subtract(self, other) ==
    /\ Len(heap) = NumOperands
    /\ LET r == subtract(heap, self, other)
       IN  heap' = r.heap /\ last' = Call("subtract", self, other, TRUE, r.result)
    /\ UNCHANGED <<file, nsets>>

Multiply(self, other) ==
    /\ Len(heap) = NumOperands
    /\ IF multiply_raises(heap, self, other)
       THEN heap' = heap /\ last' = Call("multiply", self, other, FALSE, 0)
       ELSE LET r == multiply(heap, self, other)
            IN  heap' = r.heap /\ last' = Call("multiply", self, other, TRUE, r.result)
    /\ UNCHANGED <<file, nsets>>

\* matrix = SparseMatrix(matrix_file=...): the driver loads at most its operands
LoadStep(r) ==
    /\ heap' = loaded_object(heap, r)
    /\ last' = Call("load_matrix", 0, 0, r.ok, IF r.ok THEN Len(heap) + 1 ELSE 0)
    /\ UNCHANGED <<file, nsets>>

Load == Len(heap) < NumOperands /\ LoadStep(load_matrix(file))

Save(self) ==
    /\ file' = save_to_file(heap, self)
    /\ last' = Call("save_to_file", self, 0, TRUE, 0)
    /\ UNCHANGED <<heap, nsets>>

\* ---- the engine: two constructed operands, element access, one arithmetic result
Init ==
    /\ \E r1 \in Dims, c1 \in Dims, r2 \in Dims, c2 \in Dims :
         heap = SparseMatrix(SparseMatrix(<<>>, r1, c1), r2, c2)
    /\ file = <<>>
    /\ last = Call("init", 0, 0, TRUE, 0)
    /\ nsets = 0

Next ==
    \/ \E self \in Refs, row \in Keys, col \in Keys, value \in Vals :
         SetElement(self, row, col, value)
    \/ \E self \in Refs, row \in Keys, col \in Keys : GetElement(self, row, col)
    \/ \E self \in Operands, other \in Operands : Add(self, other)
    \/ \E self \in Operands, other \in Operands : Subtract(self, other)
    \/ \E self \in Operands, other \in Operands : Multiply(self, other)

Spec == Init /\ [][Next]_vars

\* ---- one constructed matrix under set_element and get_element
InitOne ==
    /\ \E r1 \in Dims, c1 \in Dims : heap = SparseMatrix(<<>>, r1, c1)
    /\ file = <<>>
    /\ last = Call("init", 0, 0, TRUE, 0)
    /\ nsets = 0

NextSet ==
    \/ \E self \in Refs, row \in Keys, col \in Keys, value \in Vals :
         SetElement(self, row, col, value)
    \/ \E self \in Refs, row \in Keys, col \in Keys : GetElement(self, row, col)

SpecSet == InitOne /\ [][NextSet]_vars

\* ---- one constructed matrix, filled, then saved to the file and loaded back
NextCodec ==
    \/ \E self \in Refs, row \in Keys, col \in Keys, value \in CodecVals :
         file = <<>> /\ SetElement(self, row, col, value)
    \/ \E self \in Refs : Save(self)
    \/ Load

SpecCodec == InitOne /\ [][NextCodec]_vars

\* ---- parsing a given input file
InitParse ==
    /\ heap = <<>>
    /\ file \in InputTexts
    /\ last = Call("init", 0, 0, TRUE, 0)
    /\ nsets = 0

NextParse == Load

SpecParse == InitParse /\ [][NextParse]_vars

\* ------------------------------------------------------------- the claims
ProbeKeys == -1..MaxDim
Arithmetic == {"add", "subtract", "multiply"}

RowRange(h, k) == 0..(h[k].numRows - 1)
ColRange(h, k) == 0..(h[k].numCols - 1)

\* every stored (row, col) key of object k lies inside its declared dimensions
InBounds(h, k) ==
    \A i \in 1..Len(h[k].matrix) :
        /\ h[k].matrix[i][1] \in RowRange(h, k)
        /\ \A j \in 1..Len(h[k].matrix[i][2]) : h[k].matrix[i][2][j][1] \in ColRange(h, k)

SameShape(h, a, b) == h[a].numRows = h[b].numRows /\ h[a].numCols = h[b].numCols

\* the mathematical product entry: sum over k in [0, a.cols) of a[row,k] * b[k,col]
RECURSIVE ProductEntry(_, _, _, _, _, _)
ProductEntry(h, a, b, row, col, k) ==
    IF k < 0 THEN 0
    ELSE get_element(h, a, row, k) * get_element(h, b, k, col)
         + ProductEntry(h, a, b, row, col, k - 1)

\* C1: multiply(a, b) with a.cols = b.rows and in-bounds operands returns the
\* a.rows x b.cols matrix whose every element is the dot product of a's row
\* and b's column.
C1_MultiplyIsDotProduct ==
    (last.op = "multiply" /\ last.ok /\ InBounds(heap, last.self) /\ InBounds(heap, last.other))
    => /\ heap[last.ret].numRows = heap[last.self].numRows
       /\ heap[last.ret].numCols = heap[last.other].numCols
       /\ \A row \in RowRange(heap, last.self), col \in ColRange(heap, last.other) :
            get_element(heap, last.ret, row, col)
              = ProductEntry(heap, last.self, last.other, row, col, heap[last.self].numCols - 1)

\* C2: multiply fails exactly when a.cols # b.rows; a failing call returns no
\* matrix and leaves every object, the operands included, as it was.
C2_MultiplyDimensionCheck ==
    [][last'.op = "multiply"
       => /\ last'.ok <=> (heap[last'.self].numCols = heap[last'.other].numRows)
          /\ ~last'.ok => (heap' = heap /\ last'.ret = 0)
          /\ last'.ok => last'.ret \in DOMAIN heap']_vars

C2_Witness ==
    /\ last.op = "multiply" /\ ~last.ok
    /\ heap[last.self].matrix # <<>> /\ heap[last.other].matrix # <<>>

\* C3: add(a, b) has a's dimensions and holds a[row,col] + b[row,col] at every
\* grid position; for operands of one shape add(b, a) agrees with it, and
\* adding an all-zero b gives a matrix element-equal to a.
C3_AddElementwise ==
    last.op = "add"
    => /\ SameShape(heap, last.ret, last.self)
       /\ \A row \in RowRange(heap, last.self), col \in ColRange(heap, last.self) :
            /\ get_element(heap, last.ret, row, col)
                 = get_element(heap, last.self, row, col)
                   + get_element(heap, last.other, row, col)
            /\ SameShape(heap, last.self, last.other)
               => get_element(heap, last.ret, row, col)
                    = get_element(add(SubSeq(heap, 1, NumOperands), last.other, last.self).heap,
                                  NumOperands + 1, row, col)
            /\ (\A r \in ProbeKeys, c \in ProbeKeys : get_element(heap, last.other, r, c) = 0)
               => get_element(heap, last.ret, row, col)
                    = get_element(heap, last.self, row, col)

C3_Witness ==
    /\ last.op = "add" /\ last.self # last.other
    /\ SameShape(heap, last.self, last.other)
    /\ \E row \in RowRange(heap, last.self), col \in ColRange(heap, last.self) :
         /\ get_element(heap, last.self, row, col) # 0
         /\ get_element(heap, last.other, row, col) # 0
         /\ get_element(heap, last.ret, row, col) = 2

\* C5: an arithmetic call, failing or not, changes no existing object and a
\* successful one returns a reference no object had before; a later
\* set_element on that result changes neither operand.
C5_OperandsNotMutated ==
    [][/\ last'.op \in Arithmetic
          => /\ \A k \in DOMAIN heap : heap'[k] = heap[k]
             /\ last'.ok => (last'.ret \notin DOMAIN heap /\ last'.ret \in DOMAIN heap')
       /\ (last'.op = "set_element" /\ last'.self \notin Operands)
          => \A k \in Operands : heap'[k] = heap[k]]_vars

C5_Witness ==
    /\ last.op = "set_element" /\ last.self \notin Operands
    /\ heap[1].matrix # <<>>
    /\ heap[last.self].matrix # heap[1].matrix

\* C6: every stored key of every matrix lies within the matrix's dimensions.
C6_KeysWithinBounds == \A k \in Refs : InBounds(heap, k)

\* C10: the result of multiply on in-bounds operands has only in-bounds keys.
C10_ProductKeysWithinBounds ==
    (last.op = "multiply" /\ last.ok /\ InBounds(heap, last.self) /\ InBounds(heap, last.other))
    => InBounds(heap, last.ret)

\* C8: a fresh matrix reads 0 everywhere; set_element(r, c, v) makes
\* get_element(r, c) = v (0 included) and changes no other position;
\* get_element always returns, at positions outside the bounds too, and
\* changes nothing.
C8_GetAfterSet ==
    /\ [](nsets = 0 => \A k \in Refs, r \in ProbeKeys, c \in ProbeKeys :
                          get_element(heap, k, r, c) = 0)
    /\ [][/\ \A self \in Refs, row \in Keys, col \in Keys, value \in Vals :
               SetElement(self, row, col, value)
               => /\ get_element(heap', self, row, col) = value
                  /\ \A r \in ProbeKeys, c \in ProbeKeys :
                       <<r, c>> # <<row, col>>
                       => get_element(heap', self, r, c) = get_element(heap, self, r, c)
          /\ last'.op = "get_element" => (last'.ok /\ heap' = heap)]_vars

C8_Witness ==
    /\ last.op = "get_element" /\ last.ret = 0 /\ nsets >= 2
    /\ Len(heap[1].matrix) = 1 /\ heap[1].matrix[1][2] = <<<<0, 0>>>>

\* C4: loading the file that save_to_file wrote for a matrix succeeds and
\* yields the same dimensions and the same element at every grid position.
C4_RoundTrip ==
    (last.op = "load_matrix" /\ file = save_to_file(heap, 1))
    => /\ last.ok
       /\ SameShape(heap, last.ret, 1)
       /\ \A row \in RowRange(heap, 1), col \in ColRange(heap, 1) :
            get_element(heap, last.ret, row, col) = get_element(heap, 1, row, col)

C4_Witness ==
    /\ last.op = "load_matrix" /\ last.ok /\ file = save_to_file(heap, 1)
    /\ Len(heap[1].matrix) = 2
    /\ get_element(heap, 1, 0, 0) = -MaxNum
    /\ get_element(heap, last.ret, 0, 0) = -MaxNum

\* the first two lines of the file, without their line ending
HeaderLine(n) == IF Len(Lines(file)) >= n THEN rstrip(Lines(file)[n]) ELSE <<>>
HasPrefix(s, p) == Len(s) >= Len(p) /\ SubSeq(s, 1, Len(p)) = p

\* C7: a file whose first line does not start with rows= or whose second
\* line does not start with cols= is rejected.
C7_HeaderPrefixRequired ==
    (/\ last.op = "load_matrix"
     /\ \/ ~HasPrefix(HeaderLine(1), <<"r", "o", "w", "s", "=">>)
        \/ ~HasPrefix(HeaderLine(2), <<"c", "o", "l", "s", "=">>))
    => ~last.ok

\* an entry line as the format defines it: ( three numeric tokens )
EntryTokens(t) == split(SubSeq(t, 2, Len(t) - 1), ",")
WellFormedEntry(line) ==
    /\ strip(line) # <<>>
    /\ Head(strip(line)) = "(" /\ strip(line)[Len(strip(line))] = ")"
    /\ Len(EntryTokens(strip(line))) = 3
    /\ \A i \in 1..3 : int(EntryTokens(strip(line))[i]).ok

EntryLineNumbers == {n \in 3..Len(Lines(file)) : strip(Lines(file)[n]) # <<>>}

\* C9: a malformed entry line fails the whole parse; otherwise each stored
\* key holds the value of the last line that names it.
C9_MalformedEntryRejected ==
    last.op = "load_matrix"
    => /\ (\E n \in EntryLineNumbers : ~WellFormedEntry(Lines(file)[n])) => ~last.ok
       /\ (last.ok /\ \A n \in EntryLineNumbers : WellFormedEntry(Lines(file)[n]))
          => \A n \in EntryLineNumbers :
               (\A m \in EntryLineNumbers :
                    m > n => \/ parse_entry(Lines(file)[m]).row # parse_entry(Lines(file)[n]).row
                             \/ parse_entry(Lines(file)[m]).col # parse_entry(Lines(file)[n]).col)
               => get_element(heap, last.ret, parse_entry(Lines(file)[n]).row,
                              parse_entry(Lines(file)[n]).col)
                    = parse_entry(Lines(file)[n]).value
====
